---------------------------- MODULE Spec2Model ----------------------------
(***************************************************************************)
(* A model of the SFEX REST client of src/python/sfex_api.py: the URI      *)
(* builder, the signer, the request dispatcher, the response decoder and   *)
(* the eight endpoint methods.                                             *)
(*                                                                         *)
(* Python values are records tagged with their type: a str is its sequence *)
(* of characters, a dict is the sequence of its (key, value) items in      *)
(* insertion order.  The keyed hash and the base64 encoding are symbolic   *)
(* injective constructors.  requests_params ranges over what the           *)
(* constructor documents, "requests params to use": absent, or a transport *)
(* option (a timeout); it carries no 'data' or 'params' entry.             *)
(***************************************************************************)
EXTENDS Integers, Sequences, FiniteSets

VARIABLES
    API_KEY,            \* self.API_KEY
    API_SECRET,         \* self.API_SECRET
    _requests_params,   \* self._requests_params
    clock,              \* time.time(), in half seconds
    obj_data,           \* the object the caller passed as data=, as it is now
    obj_params,         \* the object the caller passed as params=, as it is now
    obj_path,           \* the path the caller passed
    call,               \* the last public call: its name and arguments
    dispatched,         \* the arguments of each _request made by the last call
    http_log,           \* the HTTP requests the session issued in the last call
    response,           \* what the HTTP layer answered
    result              \* what the last call returned or raised

vars == <<API_KEY, API_SECRET, _requests_params, clock, obj_data, obj_params,
          obj_path, call, dispatched, http_log, response, result>>

config == <<API_KEY, API_SECRET, _requests_params>>

-----------------------------------------------------------------------------
(* Bounds *)

MaxClock == 2

-----------------------------------------------------------------------------
(* Python values *)

PyNone == [t |-> "NoneType"]

PyStr(s) == [t |-> "str", v |-> s]

PyInt(n) == [t |-> "int", v |-> n]

PyDict(items) == [t |-> "dict", v |-> items]

PyList(elems) == [t |-> "list", v |-> elems]

PyBytes(b) == [t |-> "bytes", v |-> b]

\* bool(x)
Truthy(x) ==
    CASE x.t = "NoneType" -> FALSE
      [] x.t = "int" -> x.v # 0
      [] OTHER -> Len(x.v) > 0

\* isinstance(x, dict)
IsDict(x) == x.t = "dict"

DigitChars == <<"0", "1", "2", "3", "4", "5", "6", "7", "8", "9">>

RECURSIVE Digits(_)
\* str(n) for an int n >= 0
Digits(n) ==
    IF n < 10 THEN <<DigitChars[n + 1]>>
    ELSE Digits(n \div 10) \o <<DigitChars[(n % 10) + 1]>>

\* "{}".format(x) and "%s" % x for a str or an int
Format(x) ==
    CASE x.t = "str" -> x.v
      [] x.t = "int" -> Digits(x.v)
      [] x.t = "NoneType" -> <<"N", "o", "n", "e">>

HasKey(items, k) == \E i \in 1..Len(items) : items[i][1] = k

GetItem(items, k) ==
    items[CHOOSE i \in 1..Len(items) : items[i][1] = k][2]

\* SetItem with a new key put first
SetItem_front(items, k, v) ==
    IF HasKey(items, k)
    THEN [i \in 1..Len(items) |-> IF items[i][1] = k THEN <<k, v>> ELSE items[i]]
    ELSE <<<<k, v>>>> \o items

\* d[k] = v: an existing key keeps its place, a new key goes last
SetItem(items, k, v) ==
    IF HasKey(items, k)
    THEN [i \in 1..Len(items) |-> IF items[i][1] = k THEN <<k, v>> ELSE items[i]]
    ELSE Append(items, <<k, v>>)

Keys(items) == [i \in 1..Len(items) |-> items[i][1]]

-----------------------------------------------------------------------------
(* Class constants and literals *)

ORDER == "ORDER"

USER == "USER"

QUOTE == "QUOTE"

API_TYPE == {ORDER, USER, QUOTE}

API_URL == <<"h", "t", "t", "p", "s", ":", "/", "/", "a", "p", "i", ".", "s", "f", "e", "x", ".", "n", "e", "t">>

API_ORDER == <<"o", "r", "d", "e", "r">>

API_USER == <<"b", "a", "l", "a", "n", "c", "e">>

API_QUOTE == <<"h", "t", "t", "p", "s", ":", "/", "/", "q", ".", "s", "f", "e", "x", ".", "n", "e", "t", "/", "v", "1">>

K_nonce == PyStr(<<"n", "o", "n", "c", "e">>)

K_key == PyStr(<<"k", "e", "y">>)

K_sign == PyStr(<<"s", "i", "g", "n">>)

K_version == PyStr(<<"v", "e", "r", "s", "i", "o", "n">>)

K_timeout == PyStr(<<"t", "i", "m", "e", "o", "u", "t">>)

K_symbol == PyStr(<<"s", "y", "m", "b", "o", "l">>)

K_side == PyStr(<<"s", "i", "d", "e">>)

K_type == PyStr(<<"t", "y", "p", "e">>)

K_price == PyStr(<<"p", "r", "i", "c", "e">>)

K_amount == PyStr(<<"a", "m", "o", "u", "n", "t">>)

K_page == PyStr(<<"p", "a", "g", "e">>)

K_size == PyStr(<<"s", "i", "z", "e">>)

K_order_id == PyStr(<<"o", "r", "d", "e", "r", "_", "i", "d">>)

K_offset == PyStr(<<"o", "f", "f", "s", "e", "t">>)

K_accuracy == PyStr(<<"a", "c", "c", "u", "r", "a", "c", "y">>)

VERSION == PyStr(<<"2", ".", "4">>)

DEFAULT_TIMEOUT == 10

-----------------------------------------------------------------------------
(* URI builder *)

Slash == <<"/">>

\* _create_api_uri with the quote category on the order host
_create_api_uri_onehost(path, api_type) ==
    CASE api_type = ORDER -> PyStr(API_URL \o Slash \o API_ORDER \o Slash \o Format(path))
      [] api_type = USER -> PyStr(API_URL \o Slash \o API_USER \o Slash \o Format(path))
      [] api_type = QUOTE -> PyStr(API_URL \o Slash \o Format(path))
      [] OTHER -> PyNone

_create_api_uri(path, api_type) ==
    CASE api_type = ORDER -> PyStr(API_URL \o Slash \o API_ORDER \o Slash \o Format(path))
      [] api_type = USER -> PyStr(API_URL \o Slash \o API_USER \o Slash \o Format(path))
      [] api_type = QUOTE -> PyStr(API_QUOTE \o Slash \o Format(path))
      [] OTHER -> PyNone

-----------------------------------------------------------------------------
(* Signer *)

\* _order_params in an order that does not depend on the insertion order
_order_params_canonical(data) ==
    LET items == {data[i] : i \in 1..Len(data)}
    IN CHOOSE f \in [1..Len(data) -> items] : {f[i] : i \in 1..Len(data)} = items

_order_params(data) == [i \in 1..Len(data) |-> <<data[i][1], data[i][2]>>]

RECURSIVE Join(_, _)
\* sep.join(strs)
Join(sep, strs) ==
    IF Len(strs) = 0 THEN <<>>
    ELSE IF Len(strs) = 1 THEN strs[1]
    ELSE strs[1] \o sep \o Join(sep, Tail(strs))

\* '&'.join(["{}={}".format(d[0], d[1]) for d in ordered_data])
QueryString(data) ==
    LET ordered_data == _order_params(data)
    IN Join(<<"&">>,
            [i \in 1..Len(ordered_data) |->
                Format(ordered_data[i][1]) \o <<"=">> \o Format(ordered_data[i][2])])

\* s.encode("utf-8")
Encode(s) == PyBytes(s)

\* hmac.new(key, msg, sha256).digest(): a symbolic injective keyed hash
HmacSha256(key, msg) == [hmac_sha256 |-> [key |-> key, msg |-> msg]]

\* base64.b64encode(digest): symbolic and injective
B64Encode(digest) == PyBytes([b64 |-> digest])

SignWith(secret, data) ==
    B64Encode(HmacSha256(Encode(Format(secret)), Encode(QueryString(data))))

\* _generate_signature keyed with the secret and the time of signing
_generate_signature_timed(data) ==
    SignWith(PyStr(Format(API_SECRET) \o Digits(clock)), data)

_generate_signature(data) == SignWith(API_SECRET, data)

-----------------------------------------------------------------------------
(* Response decoder *)

Return(v) == [kind |-> "return", value |-> v]

Raise(e) == [kind |-> "raise", value |-> PyStr(e)]

ParseOk(v) == [ok |-> TRUE, val |-> v]

ParseFail == [ok |-> FALSE, val |-> PyNone]

IsDigit(c) == \E i \in 1..10 : DigitChars[i] = c

DigitVal(c) == (CHOOSE i \in 1..10 : DigitChars[i] = c) - 1

RECURSIVE ToInt(_)
ToInt(s) ==
    IF Len(s) = 0 THEN 0
    ELSE 10 * ToInt(SubSeq(s, 1, Len(s) - 1)) + DigitVal(s[Len(s)])

\* a JSON number without sign, fraction or exponent: no leading zero
IsJsonInt(s) ==
    /\ Len(s) > 0
    /\ \A i \in 1..Len(s) : IsDigit(s[i])
    /\ (Len(s) > 1 => s[1] # "0")

RECURSIVE ParseJson(_)
\* response.json() on the subset: null, integers, {}, and arrays of one value
ParseJson(s) ==
    IF s = <<"n", "u", "l", "l">> THEN ParseOk(PyNone)
    ELSE IF IsJsonInt(s) THEN ParseOk(PyInt(ToInt(s)))
    ELSE IF s = <<"{", "}">> THEN ParseOk(PyDict(<<>>))
    ELSE IF Len(s) >= 2 /\ s[1] = "[" /\ s[Len(s)] = "]"
         THEN IF Len(s) = 2 THEN ParseOk(PyList(<<>>))
              ELSE LET inner == ParseJson(SubSeq(s, 2, Len(s) - 1))
                   IN IF inner.ok THEN ParseOk(PyList(<<inner.val>>)) ELSE ParseFail
    ELSE ParseFail

\* StartsWith2 accepting 200 alone
StartsWith2_only200(status_code) == status_code = 200

\* str(response.status_code).startswith('2')
StartsWith2(status_code) == Digits(status_code)[1] = "2"

_handle_response(resp) ==
    IF ~StartsWith2(resp.status_code) THEN Return(PyNone)
    ELSE LET res == ParseJson(resp.body)
         IN IF res.ok THEN Return(res.val) ELSE Return(PyNone)

-----------------------------------------------------------------------------
(* Request dispatcher *)

\* int(round(time.time())): round-half-to-even of clock / 2
Nonce(c) ==
    IF c % 2 = 0 THEN c \div 2
    ELSE IF (c \div 2) % 2 = 0 THEN c \div 2 ELSE (c \div 2) + 1

\* kwargs['timeout'] = 10, then kwargs.update(self._requests_params)
KwTimeout(rp) ==
    IF Truthy(rp) /\ HasKey(rp.v, K_timeout)
    THEN GetItem(rp.v, K_timeout) ELSE PyInt(DEFAULT_TIMEOUT)

\* the mapping left under kwargs['data'] / kwargs['params'] by the normalisation
Normalize(x) == IF Truthy(x) /\ IsDict(x) THEN x.v ELSE <<>>

\* Aliased when kwargs['data'] is always a copy
Aliased_copy(x) == FALSE

\* whether kwargs['data'] is the caller's own object
Aliased(x) == Truthy(x) /\ IsDict(x)

KwData(signed, data, c) ==
    IF signed THEN SetItem(Normalize(data), K_nonce, PyInt(Nonce(c)))
    ELSE Normalize(data)

\* KwHeaders with the signature taken before the nonce is in the body
KwHeaders_presigned(signed, body) ==
    IF signed
    THEN << <<K_version, VERSION>>, <<K_key, API_KEY>>,
            <<K_sign, _generate_signature(SelectSeq(body, LAMBDA it : it[1] # K_nonce))>> >>
    ELSE << <<K_version, VERSION>> >>

KwHeaders(signed, body) ==
    IF signed
    THEN << <<K_version, VERSION>>, <<K_key, API_KEY>>,
            <<K_sign, _generate_signature(body)>> >>
    ELSE << <<K_version, VERSION>> >>

\* SessionCall with the transport fault caught and turned into None
SessionCall_swallow(resp) ==
    IF resp.kind = "error" THEN Return(PyNone)
    ELSE _handle_response(resp)

\* session.<method>(uri, **kwargs): either a fault of the transport or a response
SessionCall(resp) ==
    IF resp.kind = "error" THEN Raise(<<"C", "o", "n", "n", "e", "c", "t", "i", "o", "n", "E", "r", "r", "o", "r">>)
    ELSE _handle_response(resp)

_request(method, path, type, signed, data, params, resp) ==
    LET uri == _create_api_uri(path, type)
        body == KwData(signed, data, clock)
        kwargs == [timeout |-> KwTimeout(_requests_params),
                   data |-> body,
                   params |-> Normalize(params),
                   headers |-> KwHeaders(signed, body)]
    IN /\ dispatched' = <<[method |-> method, path |-> path, type |-> type,
                           signed |-> signed, data |-> data, params |-> params]>>
       /\ http_log' = <<[method |-> method, uri |-> uri, kwargs |-> kwargs]>>
       /\ obj_data' = IF Aliased(data) THEN PyDict(body) ELSE data
       /\ obj_params' = params
       /\ obj_path' = path
       /\ response' = resp
       /\ result' = SessionCall(resp)
       /\ UNCHANGED <<config, clock>>

_get(path, type, signed, data, params, resp) ==
    _request("get", path, type, signed, data, params, resp)

_post(path, type, signed, data, params, resp) ==
    _request("post", path, type, signed, data, params, resp)

_put(path, type, signed, data, params, resp) ==
    _request("put", path, type, signed, data, params, resp)

_delete(path, type, signed, data, params, resp) ==
    _request("delete", path, type, signed, data, params, resp)

-----------------------------------------------------------------------------
(* Endpoint methods.  _get and _post default to type=API_TYPE.ORDER and      *)
(* signed=False; a params= that is not passed reads as None in _request.     *)

_create_order(symbol, side, price, amount, resp) ==
    LET params == PyDict(<< <<K_symbol, symbol>>, <<K_side, side>>,
                            <<K_type, PyInt(1)>>, <<K_price, price>>,
                            <<K_amount, amount>> >>)
    IN _post(PyStr(<<"c", "r", "e", "a", "t", "e">>), ORDER, TRUE, params, PyNone, resp)

get_ticker(symbol, resp) ==
    LET params == PyDict(<<>>)
        path == PyStr(<<"t", "i", "c", "k", "e", "r", "/">> \o Format(symbol))
    IN /\ call' = [name |-> "get_ticker", args |-> <<symbol>>]
       /\ _get(path, QUOTE, FALSE, params, PyNone, resp)

get_depth(symbol, resp) ==
    LET params == PyDict(<< <<K_offset, PyInt(10)>>, <<K_accuracy, PyInt(5)>>,
                            <<K_size, PyInt(5)>> >>)
        path == PyStr(<<"o", "r", "d", "e", "r", "b", "o", "o", "k", "/">> \o Format(symbol))
    IN /\ call' = [name |-> "get_depth", args |-> <<symbol>>]
       /\ _get(path, QUOTE, FALSE, params, PyNone, resp)

get_user_balance(resp) ==
    LET params == PyDict(<<>>)
    IN /\ call' = [name |-> "get_user_balance", args |-> <<>>]
       /\ _post(PyStr(<<"l", "i", "s", "t">>), USER, TRUE, params, PyNone, resp)

create_buy_order(symbol, price, amount, resp) ==
    /\ call' = [name |-> "create_buy_order", args |-> <<symbol, price, amount>>]
    /\ _create_order(symbol, PyInt(1), price, amount, resp)

\* create_sell_order sending the buy side
create_sell_order_buy(symbol, price, amount, resp) ==
    /\ call' = [name |-> "create_sell_order", args |-> <<symbol, price, amount>>]
    /\ _create_order(symbol, PyInt(1), price, amount, resp)

create_sell_order(symbol, price, amount, resp) ==
    /\ call' = [name |-> "create_sell_order", args |-> <<symbol, price, amount>>]
    /\ _create_order(symbol, PyInt(2), price, amount, resp)

get_history_orders(page, size, resp) ==
    LET params == PyDict(<< <<K_page, page>>, <<K_size, size>> >>)
    IN /\ call' = [name |-> "get_history_orders", args |-> <<page, size>>]
       /\ _post(PyStr(<<"h", "i", "s", "t", "o", "r", "y">>), ORDER, TRUE, params, PyNone, resp)

cancel_order(symbol, order_id, resp) ==
    LET params == PyDict(<< <<K_symbol, symbol>>, <<K_order_id, order_id>> >>)
    IN /\ call' = [name |-> "cancel_order", args |-> <<symbol, order_id>>]
       /\ _post(PyStr(<<"r", "e", "m", "o", "v", "e">>), ORDER, TRUE, params, PyNone, resp)

get_open_orders(symbol, page, size, resp) ==
    LET params == PyDict(<< <<K_symbol, symbol>>, <<K_page, page>>, <<K_size, size>> >>)
    IN /\ call' = [name |-> "get_open_orders", args |-> <<symbol, page, size>>]
       /\ _post(PyStr(<<"a", "c", "t", "i", "v", "e">>), ORDER, TRUE, params, PyNone, resp)

\* time passes between calls
Tick ==
    /\ clock < MaxClock
    /\ clock' = clock + 1
    /\ UNCHANGED <<config, obj_data, obj_params, obj_path, call, dispatched,
                   http_log, response, result>>

-----------------------------------------------------------------------------
(* Inputs *)

BTCUSD == PyStr(<<"B", "T", "C", "U", "S", "D">>)

ETHUSD == PyStr(<<"E", "T", "H", "U", "S", "D">>)

Symbols == {BTCUSD, ETHUSD}

Prices == {PyStr(<<"1", "0", "0", ".", "0">>)}

Amounts == {PyStr(<<"1", ".", "0">>)}

Pages == {PyInt(2)}

Sizes == {PyInt(20)}

OrderIds == {PyInt(77)}

\* the clients constructed: Client(api_key, api_secret, requests_params)
Clients ==
    { [key |-> PyStr(<<"k", "1">>), secret |-> PyStr(<<"s", "1">>),
       requests_params |-> PyNone],
      [key |-> PyStr(<<"k", "2">>), secret |-> PyStr(<<"s", "2">>),
       requests_params |-> PyDict(<< <<K_timeout, PyInt(30)>> >>)] }

StatusCodes == {200, 204, 300, 404, 500}

Bodies == {<<>>, <<"[", "7", "]">>, <<"x">>, <<"n", "u", "l", "l">>}

TransportError == [kind |-> "error", status_code |-> 0, body |-> <<>>]

Responses ==
    {TransportError} \cup
    {[kind |-> "response", status_code |-> sc, body |-> b] : sc \in StatusCodes, b \in Bodies}

-----------------------------------------------------------------------------
(* The client, called through its endpoint methods *)

NoCall == [name |-> "none", args |-> <<>>]

InitClient ==
    /\ \E c \in Clients :
          /\ API_KEY = c.key
          /\ API_SECRET = c.secret
          /\ _requests_params = c.requests_params
    /\ clock = 0
    /\ call = NoCall
    /\ dispatched = <<>>
    /\ http_log = <<>>
    /\ response = TransportError
    /\ result = Return(PyNone)

Init ==
    /\ InitClient
    /\ obj_data = PyNone
    /\ obj_params = PyNone
    /\ obj_path = PyStr(<<>>)

Next ==
    \/ \E s \in Symbols, r \in Responses : get_ticker(s, r)
    \/ \E s \in Symbols, r \in Responses : get_depth(s, r)
    \/ \E r \in Responses : get_user_balance(r)
    \/ \E s \in Symbols, p \in Prices, a \in Amounts, r \in Responses :
          create_buy_order(s, p, a, r)
    \/ \E s \in Symbols, p \in Prices, a \in Amounts, r \in Responses :
          create_sell_order(s, p, a, r)
    \/ \E p \in Pages, z \in Sizes, r \in Responses : get_history_orders(p, z, r)
    \/ \E s \in Symbols, o \in OrderIds, r \in Responses : cancel_order(s, o, r)
    \/ \E s \in Symbols, p \in Pages, z \in Sizes, r \in Responses :
          get_open_orders(s, p, z, r)
    \/ Tick

Spec == Init /\ [][Next]_vars

-----------------------------------------------------------------------------
(* The dispatcher, called directly on objects the caller owns and keeps *)

caller_get(type, signed, resp) ==
    /\ call' = [name |-> "_get", args |-> <<>>]
    /\ _get(obj_path, type, signed, obj_data, obj_params, resp)

caller_post(type, signed, resp) ==
    /\ call' = [name |-> "_post", args |-> <<>>]
    /\ _post(obj_path, type, signed, obj_data, obj_params, resp)

caller_put(type, signed, resp) ==
    /\ call' = [name |-> "_put", args |-> <<>>]
    /\ _put(obj_path, type, signed, obj_data, obj_params, resp)

caller_delete(type, signed, resp) ==
    /\ call' = [name |-> "_delete", args |-> <<>>]
    /\ _delete(obj_path, type, signed, obj_data, obj_params, resp)

K_a == PyStr(<<"a">>)

CallerData ==
    { PyNone,
      PyStr(<<"a", "=", "1">>),
      PyDict(<<>>),
      PyDict(<< <<K_a, PyInt(1)>> >>),
      PyDict(<< <<K_nonce, PyInt(5)>>, <<K_a, PyStr(<<"b">>)>> >>) }

CallerParams == {PyNone, PyDict(<< <<K_a, PyInt(1)>> >>)}

CallerPaths == {PyStr(<<"l", "i", "s", "t">>), PyStr(<<"@", "a", "p", "i", ".", "s", "f", "e", "x", ".", "n", "e", "t", "/", "x">>)}

DispatchResponses ==
    { TransportError,
      [kind |-> "response", status_code |-> 200, body |-> <<"[", "7", "]">>] }

InitDispatch ==
    /\ InitClient
    /\ obj_data \in CallerData
    /\ obj_params \in CallerParams
    /\ obj_path \in CallerPaths

NextDispatch ==
    \/ \E t \in API_TYPE, g \in BOOLEAN, r \in DispatchResponses : caller_get(t, g, r)
    \/ \E t \in API_TYPE, g \in BOOLEAN, r \in DispatchResponses : caller_post(t, g, r)
    \/ \E t \in API_TYPE, g \in BOOLEAN, r \in DispatchResponses : caller_put(t, g, r)
    \/ \E t \in API_TYPE, g \in BOOLEAN, r \in DispatchResponses : caller_delete(t, g, r)
    \/ Tick

SpecDispatch == InitDispatch /\ [][NextDispatch]_vars

-----------------------------------------------------------------------------
(* The signer, applied to a mapping the caller edits between signatures *)

MaxQueryLen == 5

Chars == {"a", "=", "&"}

DistinctKeys(m) == \A i, j \in 1..Len(m) : m[i][1] = m[j][1] => i = j

\* the mappings a dict can hold within the bound
Signable(m) == DistinctKeys(m) /\ Len(QueryString(m)) <= MaxQueryLen

\* the caller's mapping becomes m and is signed
sign_mapping(name, m) ==
    /\ Signable(m)
    /\ m # obj_data.v
    /\ obj_data' = PyDict(m)
    /\ call' = [name |-> name, args |-> <<>>]
    /\ result' = Return(_generate_signature(m))
    /\ UNCHANGED <<config, clock, obj_params, obj_path, dispatched, http_log, response>>

\* one character of a key (part 1) or a value (part 2) is replaced
substitute_char(i, part, pos, c) ==
    LET m == obj_data.v
        str == m[i][part].v
    IN /\ pos \in 1..Len(str)
       /\ sign_mapping("substitute_char",
                       [m EXCEPT ![i][part] = PyStr([str EXCEPT ![pos] = c])])

\* one character is inserted into a key or a value
insert_char(i, part, pos, c) ==
    LET m == obj_data.v
        str == m[i][part].v
    IN /\ pos \in 1..(Len(str) + 1)
       /\ sign_mapping("insert_char",
                       [m EXCEPT ![i][part] =
                           PyStr(SubSeq(str, 1, pos - 1) \o <<c>> \o SubSeq(str, pos, Len(str)))])

\* one character is deleted from a key or a value
delete_char(i, part, pos) ==
    LET m == obj_data.v
        str == m[i][part].v
    IN /\ pos \in 1..Len(str)
       /\ sign_mapping("delete_char",
                       [m EXCEPT ![i][part] =
                           PyStr(SubSeq(str, 1, pos - 1) \o SubSeq(str, pos + 1, Len(str)))])

\* two pairs change places
reorder(i, j) ==
    LET m == obj_data.v
    IN /\ i < j
       /\ sign_mapping("reorder", [m EXCEPT ![i] = m[j], ![j] = m[i]])

\* a pair with an empty key and an empty value is added
add_item ==
    sign_mapping("add_item", Append(obj_data.v, <<PyStr(<<>>), PyStr(<<>>)>>))

InitSign ==
    /\ InitClient
    /\ obj_data = PyDict(<<>>)
    /\ obj_params = PyNone
    /\ obj_path = PyStr(<<>>)

Positions == 1..MaxQueryLen

NextSign ==
    \/ \E i \in 1..Len(obj_data.v), part \in {1, 2}, pos \in Positions, c \in Chars :
          substitute_char(i, part, pos, c)
    \/ \E i \in 1..Len(obj_data.v), part \in {1, 2}, pos \in Positions, c \in Chars :
          insert_char(i, part, pos, c)
    \/ \E i \in 1..Len(obj_data.v), part \in {1, 2}, pos \in Positions :
          delete_char(i, part, pos)
    \/ \E i \in 1..Len(obj_data.v), j \in 1..Len(obj_data.v) : reorder(i, j)
    \/ add_item

SpecSign == InitSign /\ [][NextSign]_vars

-----------------------------------------------------------------------------
(* Reading the recorded call *)

Called == call.name # "none"

Req == http_log[1]

Args == dispatched[1]

Body == Req.kwargs.data

Headers == Req.kwargs.headers

ItemSet(items) == {items[i] : i \in 1..Len(items)}

ORDER_HOST == <<"a", "p", "i", ".", "s", "f", "e", "x", ".", "n", "e", "t">>

QUOTE_HOST == <<"q", ".", "s", "f", "e", "x", ".", "n", "e", "t">>

Is2xx(sc) == sc >= 200 /\ sc <= 299

\* the bodies of Bodies that are JSON, with the value each one denotes
Parsed(b) ==
    CASE b = <<"[", "7", "]">> -> PyList(<<PyInt(7)>>)
      [] b = <<"n", "u", "l", "l">> -> PyNone

Parseable == {<<"[", "7", "]">>, <<"n", "u", "l", "l">>}

-----------------------------------------------------------------------------
(* Claims checked under Spec *)

\* C2: create_buy_order(symbol, price, amount) issues exactly one POST to
\* {order_host}/order/create whose body is symbol, side=1, type=1, price,
\* amount, nonce in that order, with header key = the API key and header sign
\* = the signature over "symbol=..&side=1&type=1&price=..&amount=..&nonce=..".
C2_BuyOrderRequest ==
    call.name = "create_buy_order" =>
        /\ Len(http_log) = 1
        /\ Req.method = "post"
        /\ Req.uri = PyStr(<<"h", "t", "t", "p", "s", ":", "/", "/", "a", "p", "i", ".", "s", "f", "e", "x", ".", "n", "e", "t", "/", "o", "r", "d", "e", "r", "/", "c", "r", "e", "a", "t", "e">>)
        /\ Len(Body) = 6
        /\ Body[1] = <<K_symbol, call.args[1]>>
        /\ Body[2] = <<K_side, PyInt(1)>>
        /\ Body[3] = <<K_type, PyInt(1)>>
        /\ Body[4] = <<K_price, call.args[2]>>
        /\ Body[5] = <<K_amount, call.args[3]>>
        /\ Body[6][1] = K_nonce
        /\ Body[6][2].t = "int"
        /\ GetItem(Headers, K_key) = API_KEY
        /\ GetItem(Headers, K_sign) =
             B64Encode(HmacSha256(Encode(API_SECRET.v), Encode(
                 <<"s", "y", "m", "b", "o", "l", "=">> \o call.args[1].v
                 \o <<"&", "s", "i", "d", "e", "=", "1", "&", "t", "y", "p", "e", "=", "1", "&", "p", "r", "i", "c", "e", "=">> \o call.args[2].v
                 \o <<"&", "a", "m", "o", "u", "n", "t", "=">> \o call.args[3].v
                 \o <<"&", "n", "o", "n", "c", "e", "=">> \o Digits(Body[6][2].v))))

C2_Witness ==
    /\ call.name = "create_buy_order"
    /\ call.args = <<BTCUSD, PyStr(<<"1", "0", "0", ".", "0">>), PyStr(<<"1", ".", "0">>)>>
    /\ Len(http_log) = 1
    /\ Body[6] = <<K_nonce, PyInt(1)>>

\* C3: get_depth(symbol) issues an unsigned GET to
\* {quote_host}/orderbook/{symbol} that carries offset=10, accuracy=5, size=5
\* as the query string (params) and not as the form body, with neither a key
\* nor a sign header.
C3_DepthQueryString ==
    call.name = "get_depth" =>
        /\ Len(http_log) = 1
        /\ Req.method = "get"
        /\ Req.uri = PyStr(<<"h", "t", "t", "p", "s", ":", "/", "/", "q", ".", "s", "f", "e", "x", ".", "n", "e", "t", "/", "v", "1", "/", "o", "r", "d", "e", "r", "b", "o", "o", "k", "/">> \o call.args[1].v)
        /\ Req.kwargs.params = << <<K_offset, PyInt(10)>>, <<K_accuracy, PyInt(5)>>,
                                  <<K_size, PyInt(5)>> >>
        /\ Req.kwargs.data = <<>>
        /\ ~HasKey(Headers, K_key)
        /\ ~HasKey(Headers, K_sign)

\* the endpoint table: method, category, signed flag and parameters
Table(name, a) ==
    CASE name = "get_ticker" ->
           [method |-> "get", type |-> QUOTE, signed |-> FALSE, fields |-> {}]
      [] name = "get_depth" ->
           [method |-> "get", type |-> QUOTE, signed |-> FALSE,
            fields |-> {<<K_offset, PyInt(10)>>, <<K_accuracy, PyInt(5)>>,
                        <<K_size, PyInt(5)>>}]
      [] name = "get_user_balance" ->
           [method |-> "post", type |-> USER, signed |-> TRUE, fields |-> {}]
      [] name = "create_buy_order" ->
           [method |-> "post", type |-> ORDER, signed |-> TRUE,
            fields |-> {<<K_symbol, a[1]>>, <<K_side, PyInt(1)>>, <<K_type, PyInt(1)>>,
                        <<K_price, a[2]>>, <<K_amount, a[3]>>}]
      [] name = "create_sell_order" ->
           [method |-> "post", type |-> ORDER, signed |-> TRUE,
            fields |-> {<<K_symbol, a[1]>>, <<K_side, PyInt(2)>>, <<K_type, PyInt(1)>>,
                        <<K_price, a[2]>>, <<K_amount, a[3]>>}]
      [] name = "get_history_orders" ->
           [method |-> "post", type |-> ORDER, signed |-> TRUE,
            fields |-> {<<K_page, a[1]>>, <<K_size, a[2]>>}]
      [] name = "cancel_order" ->
           [method |-> "post", type |-> ORDER, signed |-> TRUE,
            fields |-> {<<K_symbol, a[1]>>, <<K_order_id, a[2]>>}]
      [] name = "get_open_orders" ->
           [method |-> "post", type |-> ORDER, signed |-> TRUE,
            fields |-> {<<K_symbol, a[1]>>, <<K_page, a[2]>>, <<K_size, a[3]>>}]

\* C4: each of the eight endpoint methods makes exactly one dispatch, whose
\* HTTP method, category, signed flag and parameters are those of the
\* endpoint table.
C4_EndpointTable ==
    Called =>
        /\ Len(dispatched) = 1
        /\ Len(http_log) = 1
        /\ Args.method = Table(call.name, call.args).method
        /\ Req.method = Args.method
        /\ Args.type = Table(call.name, call.args).type
        /\ Args.signed = Table(call.name, call.args).signed
        /\ Args.data.t = "dict"
        /\ ItemSet(Args.data.v) = Table(call.name, call.args).fields
        /\ Len(Args.data.v) = Cardinality(Table(call.name, call.args).fields)

C4_Witness ==
    /\ call.name = "create_sell_order"
    /\ Len(dispatched) = 1
    /\ <<K_side, PyInt(2)>> \in ItemSet(Args.data.v)
    /\ Args.signed

ProbeData ==
    { << <<K_symbol, BTCUSD>>, <<K_nonce, PyInt(1)>> >> }

\* C8: signing is history-independent: no call and no passage of time
\* changes the API key, the API secret or the requests params, and the
\* signature of a given ordered parameter sequence is after every step what
\* it was before it.
C8_SigningHistoryIndependent ==
    [][ /\ API_KEY' = API_KEY
        /\ API_SECRET' = API_SECRET
        /\ _requests_params' = _requests_params
        /\ \A d \in ProbeData : _generate_signature(d)' = _generate_signature(d)
      ]_vars

C8_Witness ==
    /\ call.name = "cancel_order"
    /\ clock = MaxClock
    /\ GetItem(Headers, K_sign) = _generate_signature(Body)

-----------------------------------------------------------------------------
(* Claims checked under SpecDispatch *)

\* C1: a dispatch carries a key header equal to the API key, a sign header
\* equal to the signature of the body actually sent, and a nonce field in
\* that body, if and only if it is signed; an unsigned dispatch carries the
\* version header alone and the caller's mapping with nothing injected.
C1_SignedIffAuthenticated ==
    Called =>
        /\ Len(http_log) = 1
        /\ GetItem(Headers, K_version) = VERSION
        /\ Args.signed <=> HasKey(Headers, K_key)
        /\ Args.signed <=> HasKey(Headers, K_sign)
        /\ Args.signed =>
              /\ GetItem(Headers, K_key) = API_KEY
              /\ GetItem(Headers, K_sign) = SignWith(API_SECRET, Body)
              /\ HasKey(Body, K_nonce)
              /\ GetItem(Body, K_nonce).t = "int"
              /\ Len(Headers) = 3
        /\ ~Args.signed =>
              /\ Headers = << <<K_version, VERSION>> >>
              /\ Body = (IF Args.data.t = "dict" THEN Args.data.v ELSE <<>>)

C1_Witness ==
    /\ call.name = "_put"
    /\ Args.signed
    /\ Args.data = PyStr(<<"a", "=", "1">>)
    /\ Body = << <<K_nonce, PyInt(1)>> >>
    /\ GetItem(Headers, K_sign) = SignWith(API_SECRET, << <<K_nonce, PyInt(1)>> >>)

\* C7 as claimed: after a signed dispatch to which the caller passed a
\* mapping as data, that mapping, empty or not, contains the nonce field.
C7_EveryMappingMutated ==
    (Called /\ Args.signed /\ Args.data.t = "dict") =>
        (obj_data.t = "dict" /\ HasKey(obj_data.v, K_nonce))

\* C7 amended: after a signed dispatch to which the caller passed a
\* non-empty mapping as data, that mapping is the body that was sent and
\* contains the nonce field; an empty mapping is left as it was, and the body
\* sent is a fresh mapping holding the nonce alone.
C7_NonEmptyMappingMutated ==
    (Called /\ Args.signed /\ Args.data.t = "dict") =>
        /\ Len(Args.data.v) > 0 =>
              /\ obj_data = PyDict(Body)
              /\ HasKey(obj_data.v, K_nonce)
              /\ Len(obj_data.v) >= Len(Args.data.v)
        /\ Len(Args.data.v) = 0 =>
              /\ obj_data = PyDict(<<>>)
              /\ Keys(Body) = <<K_nonce>>

C7_Witness ==
    /\ Called
    /\ Args.signed
    /\ Args.data = PyDict(<< <<K_a, PyInt(1)>> >>)
    /\ obj_data = PyDict(<< <<K_a, PyInt(1)>>, <<K_nonce, PyInt(1)>> >>)

RECURSIVE FindFrom(_, _, _)
\* the first index >= i at which a character of stops occurs in u, or Len(u) + 1
FindFrom(u, i, stops) ==
    IF i > Len(u) THEN Len(u) + 1
    ELSE IF u[i] \in stops THEN i
    ELSE FindFrom(u, i + 1, stops)

\* the host of an https:// URL: its authority, without userinfo
Host(u) ==
    LET authority == SubSeq(u, 9, FindFrom(u, 9, {"/", "?", "#"}) - 1)
        at == FindFrom(authority, 1, {"@"})
    IN IF at > Len(authority) THEN authority
       ELSE SubSeq(authority, at + 1, Len(authority))

\* C9: the URL is {order_host}/order/{path} for ORDER,
\* {order_host}/balance/{path} for USER and {quote_host}/{path} for QUOTE,
\* whatever the path; a QUOTE URL is on the quote host, which is not the
\* host of the ORDER and USER URLs.
C9_UriByCategory ==
    Called =>
        /\ Args.type = ORDER =>
              /\ Req.uri = PyStr(<<"h", "t", "t", "p", "s", ":", "/", "/", "a", "p", "i", ".", "s", "f", "e", "x", ".", "n", "e", "t", "/", "o", "r", "d", "e", "r", "/">> \o Format(Args.path))
              /\ Host(Req.uri.v) = ORDER_HOST
        /\ Args.type = USER =>
              /\ Req.uri = PyStr(<<"h", "t", "t", "p", "s", ":", "/", "/", "a", "p", "i", ".", "s", "f", "e", "x", ".", "n", "e", "t", "/", "b", "a", "l", "a", "n", "c", "e", "/">> \o Format(Args.path))
              /\ Host(Req.uri.v) = ORDER_HOST
        /\ Args.type = QUOTE =>
              /\ Req.uri = PyStr(<<"h", "t", "t", "p", "s", ":", "/", "/", "q", ".", "s", "f", "e", "x", ".", "n", "e", "t", "/", "v", "1", "/">> \o Format(Args.path))
              /\ Host(Req.uri.v) = QUOTE_HOST
              /\ Host(Req.uri.v) # ORDER_HOST

C9_Witness ==
    /\ Called
    /\ Args.type = QUOTE
    /\ Args.path = PyStr(<<"@", "a", "p", "i", ".", "s", "f", "e", "x", ".", "n", "e", "t", "/", "x">>)
    /\ Host(Req.uri.v) = QUOTE_HOST

-----------------------------------------------------------------------------
(* Claims checked under SpecSign *)

CharEdit(name) == name \in {"substitute_char", "insert_char", "delete_char"}

Unambiguous(m) ==
    \A i \in 1..Len(m) :
        /\ \A p \in 1..Len(m[i][1].v) : m[i][1].v[p] \notin {"=", "&"}
        /\ \A p \in 1..Len(m[i][2].v) : m[i][2].v[p] # "&"

=============================================================================
